---- MODULE Spec2Model ----
\* Model of the MNPI verdict-construction core of mnpi-agent:
\*   classifier.py  safe_parse_model_output, classify_chunk
\*   analyzer.py    analyze_document
\*   aggregator.py  aggregate_results
\*
\* Confidences are integers in thousandths (0.6 is 600), so that the
\* two-decimal rounding of classifier.py:91 is a real operation of the model.
EXTENDS Integers, Sequences, FiniteSets, TLC

VARIABLES
    pc,                  \* position inside classify_chunk
    max_retries,         \* classify_chunk's argument
    attempt,             \* loop variable of classifier.py:136
    last_response_text,  \* classifier.py:135,140,154
    ret,                 \* "none" | "returned" | "raised"
    result,              \* the record classify_chunk returned
    exit_path,           \* which return statement produced result
    initial_calls,       \* llm.invoke calls made at classifier.py:139
    verifier_calls,      \* llm.invoke calls made at classifier.py:180
    attempt_outcome,     \* what the most recent initial attempt did
    first_pass,          \* parsed at classifier.py:170 when the verifier ran
    verifier_outcome,    \* what the verifier invocation did
    earlier_parsed,      \* an attempt before the most recent one returned a
                         \* response the normalizer accepted
    doc_pc,              \* position inside app.py's main / analyze_document
    n_chunks,            \* len(chunks) in analyze_document
    results,             \* analyze_document's results list
    summary              \* aggregate_results' return value

ctl_vars == <<pc, max_retries, attempt, last_response_text, ret, result,
              exit_path, initial_calls, verifier_calls, attempt_outcome,
              first_pass, verifier_outcome, earlier_parsed>>
doc_vars == <<doc_pc, n_chunks, results, summary>>
vars == <<pc, max_retries, attempt, last_response_text, ret, result,
          exit_path, initial_calls, verifier_calls, attempt_outcome,
          first_pass, verifier_outcome, earlier_parsed, doc_pc, n_chunks,
          results, summary>>

-----------------------------------------------------------------------------
\* Bounds

MaxRetries == 2
MaxChunks == 2
MaxEntries == 2

-----------------------------------------------------------------------------
\* Values of the JSON data model

\* a key that is not in the dict
Absent == "<absent>"
\* Python None as a dict value (what dict.get gives for a missing key)
None == "<None>"
\* a truthy JSON value that is not a string (a number, a list, true)
NonStr == "<7>"
\* a JSON list or object used as a list element: not hashable
Unhashable == "<[]>"

Verdicts == {"yes", "no", "unclear"}
RiskLevels == {"low", "medium", "high"}
Actions == {"escalate", "human_review", "no_action"}

\* classifier.py:99-101
allowed ==
    {"Unreleased Earnings/Guidance", "M&A/Transactions", "Executive Changes",
     "Product Launch/Strategic Plans", "Legal/Regulatory Investigations",
     "Insider Trading Risk", "Confidential Financial Projections", "None"}

Keys == {"mnpi", "categories", "confidence", "evidence_summary",
         "risk_level", "recommended_action", "notes"}

\* Thresholds, in thousandths
ConfMax == 950
AcceptThreshold == 750
BorderlineLow == 400
OverrideThreshold == 500
BorderlineHigh == 750
EscalateThreshold == 750
DefaultMaxRetries == 2

-----------------------------------------------------------------------------
\* Raw model responses

\* raw "confidence" values: t is the JSON type, v the value in thousandths
Num(v) == [t |-> "num", v |-> v]
NumStr(v) == [t |-> "str", v |-> v]
BadStr == [t |-> "badstr", v |-> 0]
NoConf == [t |-> "absent", v |-> 0]
NullConf == [t |-> "null", v |-> 0]
HugeInt == [t |-> "hugeint", v |-> 0]

\* raw "categories" values
CatList(s) == [t |-> "list", v |-> s]
NoCats == [t |-> "absent", v |-> <<>>]
CatsNotList == [t |-> "str", v |-> <<>>]

JsonResponse(m, cats, conf, ev, risk, act, notes) ==
    [kind |-> "json", mnpi |-> m, categories |-> cats, confidence |-> conf,
     evidence_summary |-> ev, risk_level |-> risk,
     recommended_action |-> act, notes |-> notes]

TextResponse(k) ==
    [kind |-> k, mnpi |-> Absent, categories |-> NoCats, confidence |-> NoConf,
     evidence_summary |-> Absent, risk_level |-> Absent,
     recommended_action |-> Absent, notes |-> Absent]

\* text without any {...} span (garbage, the empty string)
NoJsonText == TextResponse("nojson")
\* text with a {...} span that json.loads rejects
MalformedText == TextResponse("malformed")
\* llm.invoke returned something that is not a string
NotAString == TextResponse("nonstr")

-----------------------------------------------------------------------------
\* Output Normalizer: classifier.py safe_parse_model_output

Min2(a, b) == IF a <= b THEN a ELSE b
Max2(a, b) == IF a >= b THEN a ELSE b

Record(m, cats, conf, ev, risk, act, notes) ==
    [mnpi |-> m, categories |-> cats, confidence |-> conf,
     evidence_summary |-> ev, risk_level |-> risk,
     recommended_action |-> act, notes |-> notes]

\* the value of result while classify_chunk has not returned
NoRecord == Record(Absent, <<>>, 0, Absent, Absent, Absent, Absent)

\* classifier.py:54-62
NoJsonRecord ==
    Record("unclear", <<"None">>, 0, "No valid JSON returned", "low",
           "human_review", "Model did not return JSON")

\* classifier.py:66-74
MalformedRecord ==
    Record("unclear", <<"None">>, 0, "Malformed JSON", "low",
           "human_review", "JSON parse error")

\* classifier.py:77-78
NormalizeMnpi(m) == IF m \in Verdicts THEN m ELSE "unclear"

\* classifier.py:80-81
NormalizeCategories(cats) == IF cats.t = "list" THEN cats.v ELSE <<"None">>

\* classifier.py:83-88: numbers are kept, strings go through float(), and
\* whatever float() rejects (None, a non-numeric string) becomes 0.0
CoerceConfidence(conf) ==
    CASE conf.t = "num" -> conf.v
      [] conf.t = "str" -> conf.v
      [] conf.t = "hugeint" -> conf.v
      [] OTHER -> 0

\* round(x, 2) on thousandths; the raw values of the model avoid exact halves,
\* whose rounding depends on the binary representation
Round2(x) == ((x + 5) \div 10) * 10

\* the clamp with 1.0 as its upper end
ClampConfidence_mut(x) == Round2(Max2(0, Min2(1000, x)))

\* classifier.py:91
ClampConfidence(x) == Round2(Max2(0, Min2(ConfMax, x)))

\* the override with the borderline bound in place of 0.5
LowConfidenceYes_mut(m, c) == m = "yes" /\ c < 400

\* classifier.py:94: the low-confidence override condition
LowConfidenceYes(m, c) == m = "yes" /\ c < OverrideThreshold

\* classifier.py:102-104
FilterCategories(cats) ==
    LET kept == SelectSeq(cats, LAMBDA c : c \in allowed)
    IN  IF kept = <<>> THEN <<"None">> ELSE kept

\* classifier.py:107-114
NormalizeRisk(risk, c) ==
    IF risk \in RiskLevels THEN risk
    ELSE IF c >= 750 THEN "high"
    ELSE IF c >= 500 THEN "medium"
    ELSE "low"

\* the derivation of the action without the unclear verdict
NormalizeAction_mut(act, risk, m) ==
    IF act \in Actions THEN act
    ELSE IF risk = "high" THEN "escalate"
    ELSE IF risk = "medium" THEN "human_review"
    ELSE "no_action"

\* classifier.py:117-123
NormalizeAction(act, risk, m) ==
    IF act \in Actions THEN act
    ELSE IF risk = "high" THEN "escalate"
    ELSE IF m = "unclear" \/ risk = "medium" THEN "human_review"
    ELSE "no_action"

\* The exception safe_parse_model_output raises on a response, "" if none:
\* re.search on a non-string (52), float() of an int beyond the float range
\* (91), and a set membership test on an unhashable list element (102).
ParseError(resp) ==
    IF resp.kind = "nonstr" THEN "expected string or bytes-like object"
    ELSE IF resp.kind # "json" THEN ""
    ELSE IF resp.confidence.t = "hugeint"
         THEN "int too large to convert to float"
    ELSE IF \E i \in 1..Len(NormalizeCategories(resp.categories)) :
                NormalizeCategories(resp.categories)[i] = Unhashable
         THEN "unhashable type"
    ELSE ""

ParseRaises(resp) == ParseError(resp) # ""

\* classifier.py:50-125, for a response on which it does not raise
safe_parse_model_output(resp) ==
    IF resp.kind = "nojson" THEN NoJsonRecord
    ELSE IF resp.kind = "malformed" THEN MalformedRecord
    ELSE
      LET m1 == NormalizeMnpi(resp.mnpi)
          cats1 == NormalizeCategories(resp.categories)
          c == ClampConfidence(CoerceConfidence(resp.confidence))
          over == LowConfidenceYes(m1, c)
          m2 == IF over THEN "unclear" ELSE m1
          act1 == IF over THEN "human_review" ELSE resp.recommended_action
          cats2 == FilterCategories(cats1)
          risk == NormalizeRisk(resp.risk_level, c)
          act2 == NormalizeAction(act1, risk, m2)
      IN  Record(m2, cats2, c, resp.evidence_summary, risk, act2, resp.notes)

-----------------------------------------------------------------------------
\* Classification Controller: classifier.py classify_chunk

\* what an llm.invoke call did: returned resp, or raised an error with text err
NoOutcome == [o |-> "none", resp |-> NoJsonText, err |-> ""]
Returned(resp) == [o |-> "returned", resp |-> resp, err |-> ""]
Raised(e) == [o |-> "raised", resp |-> NoJsonText, err |-> e]

\* classifier.py:154: f"ERROR: {e}" is text without a {...} span
ErrorText(e) == NoJsonText

\* the terminal record without the error text
ErrorRecord_mut(e) ==
    [mnpi |-> "unclear", categories |-> <<"None">>, confidence |-> 0,
     evidence_summary |-> "LLM error", risk_level |-> "low",
     recommended_action |-> "human_review",
     notes |-> "LLM error after retries"]

\* classifier.py:159-167
ErrorRecord(e) ==
    Record("unclear", <<"None">>, 0, "LLM error", "low", "human_review",
           "LLM error after retries: " \o e)

\* early accept with a strict comparison
EarlyAccept_mut(parsed) ==
    parsed.confidence > 750 \/ parsed.mnpi = "no"

\* classifier.py:143
EarlyAccept(parsed) ==
    parsed.confidence >= AcceptThreshold \/ parsed.mnpi = "no"

\* the borderline band without its lower end
Borderline_mut(parsed) ==
    400 < parsed.confidence /\ parsed.confidence < 750

\* classifier.py:172
Borderline(parsed) ==
    BorderlineLow <= parsed.confidence /\ parsed.confidence < BorderlineHigh

\* dict.get(key): None for a missing key
Get(v) == IF v = Absent THEN None ELSE v
\* Python truthiness of a field value
Truthy(v) == v \notin {Absent, None, ""}
\* an or that prefers its second operand
Or_mut(a, b) == IF Truthy(b) THEN b ELSE a

\* Python's a or b
Or(a, b) == IF Truthy(a) THEN a ELSE b

\* the verdict merge without the yes/no conflict rule
MergeMnpi_mut(first, verifier) ==
    IF verifier = "unclear" \/ first = "unclear" THEN "unclear" ELSE first

\* classifier.py:185-190
MergeMnpi(first, verifier) ==
    IF verifier = "unclear" \/ first = "unclear" THEN "unclear"
    ELSE IF verifier = "no" /\ first = "yes" THEN "unclear"
    ELSE first

\* classifier.py:183,196
MergeConfidence(first, verifier) == ClampConfidence(Min2(first, verifier))

\* classifier.py:183-206
MergeRecords(parsed, verifier_parsed) ==
    LET final_mnpi == MergeMnpi(parsed.mnpi, verifier_parsed.mnpi)
        final_categories ==
            IF verifier_parsed.categories # <<>>
            THEN verifier_parsed.categories ELSE parsed.categories
        final_conf ==
            MergeConfidence(parsed.confidence, verifier_parsed.confidence)
        over == LowConfidenceYes(final_mnpi, final_conf)
        act == Or(Get(verifier_parsed.recommended_action),
                  Get(parsed.recommended_action))
    IN  Record(IF over THEN "unclear" ELSE final_mnpi,
               final_categories,
               final_conf,
               Or(Get(verifier_parsed.evidence_summary),
                  Get(parsed.evidence_summary)),
               Or(Get(verifier_parsed.risk_level), Get(parsed.risk_level)),
               IF over THEN "human_review" ELSE act,
               Or(Get(verifier_parsed.notes), Get(parsed.notes)))

\* classifier.py:210 raises TypeError when notes is a truthy non-string
FallbackRaises(parsed) == parsed.notes = NonStr

\* classifier.py:209-211
FallbackRecord(parsed) ==
    [parsed EXCEPT !.recommended_action = "human_review",
                   !.notes = Or(Get(parsed.notes), "") \o " | verifier failed"]

\* a return statement of classify_chunk
Return(rec, path) ==
    /\ pc' = "done"
    /\ ret' = "returned"
    /\ result' = rec
    /\ exit_path' = path

\* an exception leaving classify_chunk
Propagate ==
    /\ pc' = "done"
    /\ ret' = "raised"
    /\ result' = NoRecord
    /\ exit_path' = "raised"

\* a loop over range(0, max_retries + 1)
Entry_mut ==
    /\ pc = "entry"
    /\ last_response_text' = NoJsonText
    /\ pc' = "attempt"
    /\ attempt' = 0
    /\ UNCHANGED <<max_retries, ret, result, exit_path, initial_calls,
                   verifier_calls, attempt_outcome, first_pass,
                   verifier_outcome, earlier_parsed, doc_vars>>

\* classifier.py:133-136: build the prompt and enter the loop, or fall through
\* to line 170 when range(1, max_retries + 1) is empty
Entry ==
    /\ pc = "entry"
    /\ last_response_text' = NoJsonText
    /\ IF max_retries >= 1
       THEN pc' = "attempt" /\ attempt' = 1
       ELSE pc' = "verifier" /\ attempt' = attempt
    /\ UNCHANGED <<max_retries, ret, result, exit_path, initial_calls,
                   verifier_calls, attempt_outcome, first_pass,
                   verifier_outcome, earlier_parsed, doc_vars>>

\* the except branch keeping the last parsed response and going on to the
\* verifier step when the budget is exhausted
HandleAttemptError_mut(e) ==
    /\ last_response_text' = last_response_text
    /\ IF attempt < max_retries
       THEN /\ attempt' = attempt + 1
            /\ UNCHANGED <<pc, ret, result, exit_path>>
       ELSE /\ pc' = "verifier"
            /\ UNCHANGED <<attempt, ret, result, exit_path>>

\* classifier.py:152-167: the except branch of the loop body
HandleAttemptError(e) ==
    /\ last_response_text' = ErrorText(e)
    /\ IF attempt < max_retries
       THEN /\ attempt' = attempt + 1
            /\ UNCHANGED <<pc, ret, result, exit_path>>
       ELSE /\ Return(ErrorRecord(e), "error")
            /\ UNCHANGED attempt

\* classifier.py:137-151: one loop iteration whose llm.invoke returns
AttemptReturns(R) ==
    /\ pc = "attempt"
    /\ \E resp \in R :
        /\ initial_calls' = initial_calls + 1
        /\ attempt_outcome' = Returned(resp)
        /\ earlier_parsed' =
              (earlier_parsed \/ (attempt_outcome.o = "returned"
                                  /\ ~ParseRaises(attempt_outcome.resp)))
        /\ IF ParseRaises(resp)
           THEN HandleAttemptError(ParseError(resp))
           ELSE /\ last_response_text' = resp
                /\ IF EarlyAccept(safe_parse_model_output(resp))
                   THEN /\ Return(safe_parse_model_output(resp), "early")
                        /\ UNCHANGED attempt
                   ELSE IF attempt < max_retries
                   THEN /\ attempt' = attempt + 1
                        /\ UNCHANGED <<pc, ret, result, exit_path>>
                   ELSE /\ pc' = "verifier"
                        /\ UNCHANGED <<attempt, ret, result, exit_path>>
    /\ UNCHANGED <<max_retries, verifier_calls, first_pass, verifier_outcome,
                   doc_vars>>

\* classifier.py:137-167: one loop iteration whose llm.invoke raises
AttemptRaises(E) ==
    /\ pc = "attempt"
    /\ \E e \in E :
        /\ initial_calls' = initial_calls + 1
        /\ attempt_outcome' = Raised(e)
        /\ earlier_parsed' =
              (earlier_parsed \/ (attempt_outcome.o = "returned"
                                  /\ ~ParseRaises(attempt_outcome.resp)))
        /\ HandleAttemptError(e)
    /\ UNCHANGED <<max_retries, verifier_calls, first_pass, verifier_outcome,
                   doc_vars>>

\* classifier.py:170-172,214: not borderline, return parsed
VerifierSkipped ==
    /\ pc = "verifier"
    /\ IF ParseRaises(last_response_text)
       THEN Propagate
       ELSE /\ ~Borderline(safe_parse_model_output(last_response_text))
            /\ Return(safe_parse_model_output(last_response_text), "plain")
    /\ UNCHANGED <<max_retries, attempt, last_response_text, initial_calls,
                   verifier_calls, attempt_outcome, first_pass,
                   verifier_outcome, earlier_parsed, doc_vars>>

\* classifier.py:207-211: the except branch of the verifier pass
HandleVerifierError(parsed) ==
    IF FallbackRaises(parsed)
    THEN Propagate
    ELSE Return(FallbackRecord(parsed), "fallback")

\* classifier.py:170-206: borderline, and the verifier's llm.invoke returns
VerifierReturns(R) ==
    /\ pc = "verifier"
    /\ ~ParseRaises(last_response_text)
    /\ Borderline(safe_parse_model_output(last_response_text))
    /\ \E resp \in R :
        LET parsed == safe_parse_model_output(last_response_text)
        IN  /\ verifier_calls' = verifier_calls + 1
            /\ first_pass' = parsed
            /\ verifier_outcome' = Returned(resp)
            /\ IF ParseRaises(resp)
               THEN HandleVerifierError(parsed)
               ELSE Return(MergeRecords(parsed, safe_parse_model_output(resp)),
                           "merge")
    /\ UNCHANGED <<max_retries, attempt, last_response_text, initial_calls,
                   attempt_outcome, earlier_parsed, doc_vars>>

\* classifier.py:170-180,207-211: borderline, and the verifier's llm.invoke
\* raises
VerifierRaises(E) ==
    /\ pc = "verifier"
    /\ ~ParseRaises(last_response_text)
    /\ Borderline(safe_parse_model_output(last_response_text))
    /\ \E e \in E :
        LET parsed == safe_parse_model_output(last_response_text)
        IN  /\ verifier_calls' = verifier_calls + 1
            /\ first_pass' = parsed
            /\ verifier_outcome' = Raised(e)
            /\ HandleVerifierError(parsed)
    /\ UNCHANGED <<max_retries, attempt, last_response_text, initial_calls,
                   attempt_outcome, earlier_parsed, doc_vars>>

-----------------------------------------------------------------------------
\* Result Aggregator: aggregator.py aggregate_results

\* the category vocabulary in Python's string order, for sorted()
SortedVocabulary ==
    <<"Confidential Financial Projections", "Executive Changes",
      "Insider Trading Risk", "Legal/Regulatory Investigations",
      "M&A/Transactions", "None", "Product Launch/Strategic Plans",
      "Unreleased Earnings/Guidance">>

Summary(m, cats, conf, reason, act) ==
    [overall_mnpi |-> m, categories |-> cats, overall_confidence |-> conf,
     reason |-> reason, recommended_action |-> act]

NoSummary == Summary(Absent, <<>>, 0, Absent, Absent)

Range(s) == {s[i] : i \in 1..Len(s)}

\* the minimum in place of the maximum
MaxOf_mut(S) == IF S = {} THEN 0 ELSE CHOOSE x \in S : \A y \in S : x <= y

\* max(..., default=0.0)
MaxOf(S) == IF S = {} THEN 0 ELSE CHOOSE x \in S : \A y \in S : y <= x

\* An element of the list aggregate_results receives: a dict (is_dict) with
\* raw, unvalidated values, or something that is not a dict.
DictEntry(m, cats, conf, ev, act) ==
    [is_dict |-> TRUE, mnpi |-> m, categories |-> cats, confidence |-> conf,
     evidence_summary |-> ev, recommended_action |-> act]

\* a list element that is not a dict (a string, None, a number)
NotADict ==
    [is_dict |-> FALSE, mnpi |-> Absent, categories |-> NoCats,
     confidence |-> NoConf, evidence_summary |-> Absent,
     recommended_action |-> Absent]

\* the dict classify_chunk returned, as aggregate_results receives it
Dict(r) ==
    DictEntry(r.mnpi, CatList(r.categories), Num(r.confidence),
          r.evidence_summary, r.recommended_action)

Dicts(rs) == [i \in 1..Len(rs) |-> Dict(rs[i])]

\* aggregator.py:21: float() raises on a non-numeric string (ValueError) and
\* on an int beyond the float range (OverflowError)
EntryRaises(r) == r.is_dict /\ r.confidence.t \in {"badstr", "hugeint"}

\* aggregator.py:18-24
NormalizeEntry(r) ==
    [mnpi |-> IF r.mnpi = Absent THEN "unclear" ELSE r.mnpi,
     categories |->
         IF r.categories.t = "list" THEN r.categories.v ELSE <<"None">>,
     confidence |->
         IF r.confidence.t \in {"num", "str"} THEN r.confidence.v ELSE 0,
     evidence_summary |->
         IF r.evidence_summary = Absent THEN "" ELSE r.evidence_summary,
     recommended_action |->
         IF r.recommended_action = Absent THEN "human_review"
         ELSE r.recommended_action]

\* aggregator.py:14-24: entries that are not dicts are skipped
Normalized(rs) ==
    LET dicts == SelectSeq(rs, LAMBDA r : r.is_dict)
    IN  [i \in 1..Len(dicts) |-> NormalizeEntry(dicts[i])]

\* every record counted as flagged
mnpi_flags_mut(normalized) == SelectSeq(normalized, LAMBDA r : TRUE)

\* aggregator.py:26
mnpi_flags(normalized) == SelectSeq(normalized, LAMBDA r : r.mnpi = "yes")

\* all() in place of any()
any_unclear_mut(normalized) ==
    \A i \in 1..Len(normalized) : normalized[i].mnpi = "unclear"

\* aggregator.py:31
any_unclear(normalized) ==
    \E i \in 1..Len(normalized) : normalized[i].mnpi = "unclear"

\* the tags of the first flagged record only, in its order
AggregateCategories_mut(flags) ==
    SelectSeq(flags[1].categories, LAMBDA c : c # "None")

\* aggregator.py:41-50
AggregateCategories(flags) ==
    LET categories_set ==
            UNION {Range(flags[i].categories) : i \in 1..Len(flags)}
    IN  IF categories_set = {"None"} THEN <<>>
        ELSE SelectSeq(SortedVocabulary,
                       LAMBDA c : c \in categories_set /\ c # "None")

\* aggregator.py:44: set.add raises TypeError on an unhashable tag of a
\* flagged record
CategoriesRaise(flags) ==
    \E i \in 1..Len(flags) : Unhashable \in Range(flags[i].categories)

\* aggregate_results raises on this list: at line 21 while normalizing, or at
\* line 44 while collecting the tags of the flagged records
AggregateRaises(rs) ==
    \/ \E i \in 1..Len(rs) : EntryRaises(rs[i])
    \/ CategoriesRaise(mnpi_flags(Normalized(rs)))

\* aggregator.py:5-61, for a list on which it does not raise
aggregate_results(rs) ==
    LET normalized == Normalized(rs)
        flags == mnpi_flags(normalized)
    IN  IF flags = <<>>
        THEN Summary("no", <<>>,
               Round2(MaxOf({normalized[i].confidence :
                             i \in 1..Len(normalized)})),
               IF any_unclear(normalized)
               THEN "No MNPI detected; some chunks marked unclear - human review recommended."
               ELSE "No MNPI detected.",
               IF any_unclear(normalized) THEN "human_review" ELSE "no_action")
        ELSE LET overall_confidence ==
                     Round2(MaxOf({flags[i].confidence : i \in 1..Len(flags)}))
             IN  Summary("yes", AggregateCategories(flags), overall_confidence,
                    "Detected MNPI in " \o ToString(Len(flags)) \o " chunk(s).",
                    IF overall_confidence >= EscalateThreshold
                    THEN "escalate" ELSE "human_review")

-----------------------------------------------------------------------------
\* Pipeline Driver: analyzer.py analyze_document, app.py

\* analyzer.py:16-17: classify_chunk returns a dict, which is passed through
NormalizeClassifyOutput(r) == r

\* analyzer.py:62-64: the loop calls classify_chunk on the next chunk
CallClassify ==
    /\ doc_pc = "analyze"
    /\ pc = "idle"
    /\ Len(results) < n_chunks
    /\ pc' = "entry"
    /\ max_retries' = DefaultMaxRetries
    /\ attempt' = 0
    /\ last_response_text' = NoJsonText
    /\ ret' = "none"
    /\ result' = NoRecord
    /\ exit_path' = "none"
    /\ initial_calls' = 0
    /\ verifier_calls' = 0
    /\ attempt_outcome' = NoOutcome
    /\ first_pass' = NoRecord
    /\ verifier_outcome' = NoOutcome
    /\ earlier_parsed' = FALSE
    /\ UNCHANGED doc_vars

\* analyzer.py:64-66: classify_chunk returned; normalize and append. The
\* call is over and its locals are gone.
AppendResult ==
    /\ doc_pc = "analyze"
    /\ pc = "done"
    /\ ret = "returned"
    /\ results' = Append(results, NormalizeClassifyOutput(result))
    /\ pc' = "idle"
    /\ attempt' = 0
    /\ last_response_text' = NoJsonText
    /\ ret' = "none"
    /\ result' = NoRecord
    /\ exit_path' = "none"
    /\ initial_calls' = 0
    /\ verifier_calls' = 0
    /\ attempt_outcome' = NoOutcome
    /\ first_pass' = NoRecord
    /\ verifier_outcome' = NoOutcome
    /\ earlier_parsed' = FALSE
    /\ UNCHANGED <<max_retries, doc_pc, n_chunks, summary>>

\* analyzer.py:64: classify_chunk raised; nothing catches it
Crash ==
    /\ doc_pc = "analyze"
    /\ pc = "done"
    /\ ret = "raised"
    /\ doc_pc' = "crashed"
    /\ UNCHANGED <<ctl_vars, n_chunks, results, summary>>

\* analyzer.py:68, app.py:7-8: the loop is over; aggregate the results
Aggregate ==
    /\ doc_pc = "analyze"
    /\ pc = "idle"
    /\ Len(results) = n_chunks
    /\ summary' = aggregate_results(Dicts(results))
    /\ doc_pc' = "done"
    /\ UNCHANGED <<ctl_vars, n_chunks, results>>

\* aggregator.py:5-61: a caller passes any list to aggregate_results
AggregateCall ==
    /\ doc_pc = "call"
    /\ IF AggregateRaises(results)
       THEN doc_pc' = "raised" /\ UNCHANGED summary
       ELSE doc_pc' = "done" /\ summary' = aggregate_results(results)
    /\ UNCHANGED <<ctl_vars, n_chunks, results>>

-----------------------------------------------------------------------------
\* The inputs: what the Model Invoker may answer

MnpiValues == {"yes", "no", "unclear", "maybe"}

\* below 0, below the band, rounding up to 0.4, rounding up to 0.5, inside
\* the band, rounding up to 0.75, above 0.95; "0.45" as a string; a
\* non-numeric string; no confidence at all; an int float() cannot hold
ConfidenceValues ==
    {Num(0 - 50), Num(300), Num(396), Num(497), Num(600), Num(746), Num(990),
     NumStr(450), BadStr, NoConf, HugeInt}

CategoryValues ==
    {NoCats, CatsNotList, CatList(<<"Bogus">>),
     CatList(<<"M&A/Transactions", "Bogus", "Executive Changes">>),
     CatList(<<Unhashable>>)}

RiskValues == {"low", "high", Absent}
ActionValues == {"no_action", "escalate", Absent}
EvidenceValues == {Absent, "", "evidence"}
NotesValues == {Absent, "", "note", NonStr}

\* responses that vary the verdict, the confidence and the action
VerdictResponses ==
    {JsonResponse(m, NoCats, c, Absent, Absent, a, Absent) :
        m \in MnpiValues, c \in ConfidenceValues, a \in ActionValues}

\* responses that vary the other fields of a borderline positive verdict
FieldResponses ==
    {JsonResponse("yes", NoCats, Num(600), ev, Absent, act, notes) :
        ev \in EvidenceValues, act \in ActionValues, notes \in NotesValues}
    \cup {JsonResponse("yes", cats, Num(600), Absent, risk, Absent, Absent) :
             cats \in CategoryValues, risk \in RiskValues}

Responses ==
    VerdictResponses \cup FieldResponses
        \cup {NoJsonText, MalformedText, NotAString}

\* the texts of the exceptions llm.invoke raises
Errors == {"timeout", "connection refused"}

\* raw confidences outside [0, 0.95], between two hundredths, as a string,
\* non-numeric, missing and null
DocConfidenceValues ==
    {Num(0 - 50), Num(396), Num(990), NumStr(450), BadStr, NoConf, NullConf}

\* the responses of the document-level runs
DocResponses ==
    {JsonResponse("yes", cats, Num(c), Absent, Absent, Absent, Absent) :
        cats \in {NoCats, CatList(<<"M&A/Transactions", "Bogus">>),
                  CatList(<<"Executive Changes">>)},
        c \in {600, 800}}
    \cup {JsonResponse("unclear", NoCats, Num(c), Absent, Absent, Absent,
                       Absent) : c \in {300, 600, 800}}
    \cup {JsonResponse("no", NoCats, c, Absent, Absent, Absent, Absent) :
             c \in DocConfidenceValues}
    \cup {JsonResponse("yes", NoCats, Num(300), Absent, Absent, Absent,
                       Absent),
          JsonResponse("no", NoCats, Num(300), Absent, Absent, Absent,
                       Absent),
          JsonResponse("no", CatList(<<"Executive Changes">>), Num(800),
                       Absent, Absent, Absent, Absent),
          NoJsonText,
          JsonResponse("unclear", NoCats, Num(600), Absent, Absent, Absent,
                       NonStr)}

DocErrors == {"timeout"}

-----------------------------------------------------------------------------
\* A caller invokes classify_chunk once, with any retry budget

Init ==
    /\ pc = "entry"
    /\ max_retries \in 0..MaxRetries
    /\ attempt = 0
    /\ last_response_text = NoJsonText
    /\ ret = "none"
    /\ result = NoRecord
    /\ exit_path = "none"
    /\ initial_calls = 0
    /\ verifier_calls = 0
    /\ attempt_outcome = NoOutcome
    /\ first_pass = NoRecord
    /\ verifier_outcome = NoOutcome
    /\ earlier_parsed = FALSE
    /\ doc_pc = "none"
    /\ n_chunks = 0
    /\ results = <<>>
    /\ summary = NoSummary

Next ==
    \/ Entry
    \/ AttemptReturns(Responses)
    \/ AttemptRaises(Errors)
    \/ VerifierSkipped
    \/ VerifierReturns(Responses)
    \/ VerifierRaises(Errors)

Spec == Init /\ [][Next]_vars

\* one response of each kind the control flow of classify_chunk tells apart:
\* early-accepted (negative, confident), below the borderline band, inside
\* it, inside it with notes the fallback cannot extend, without JSON,
\* malformed, not a string, and rejected by the normalizer
LiveResponses ==
    {JsonResponse("no", NoCats, Num(300), Absent, Absent, Absent, Absent),
     JsonResponse("yes", NoCats, Num(990), Absent, Absent, Absent, Absent),
     JsonResponse("unclear", NoCats, Num(300), Absent, Absent, Absent, Absent),
     JsonResponse("yes", NoCats, Num(600), Absent, Absent, Absent, Absent),
     JsonResponse("yes", NoCats, Num(600), Absent, Absent, Absent, NonStr),
     JsonResponse("yes", NoCats, HugeInt, Absent, Absent, Absent, Absent),
     JsonResponse("unclear", NoCats, Num(600), Absent, Absent, "no_action",
                  Absent),
     JsonResponse("yes", NoCats, Num(497), Absent, "high", Absent, "note"),
     NoJsonText, MalformedText, NotAString}

NextLive ==
    \/ Entry
    \/ AttemptReturns(LiveResponses)
    \/ AttemptRaises(Errors)
    \/ VerifierSkipped
    \/ VerifierReturns(LiveResponses)
    \/ VerifierRaises(Errors)

\* classify_chunk with every llm.invoke call eventually returning or raising
\* (classifier.py:138,180 are blocking calls; the code between them is
\* straight-line)
SpecLive == Init /\ [][NextLive]_vars /\ WF_vars(NextLive)

\* app.py: analyze a document of up to MaxChunks chunks, then aggregate

InitDoc ==
    /\ pc = "idle"
    /\ max_retries = DefaultMaxRetries
    /\ attempt = 0
    /\ last_response_text = NoJsonText
    /\ ret = "none"
    /\ result = NoRecord
    /\ exit_path = "none"
    /\ initial_calls = 0
    /\ verifier_calls = 0
    /\ attempt_outcome = NoOutcome
    /\ first_pass = NoRecord
    /\ verifier_outcome = NoOutcome
    /\ earlier_parsed = FALSE
    /\ doc_pc = "analyze"
    /\ n_chunks \in 0..MaxChunks
    /\ results = <<>>
    /\ summary = NoSummary

NextDoc ==
    \/ CallClassify
    \/ Entry
    \/ AttemptReturns(DocResponses)
    \/ AttemptRaises(DocErrors)
    \/ VerifierSkipped
    \/ VerifierReturns(DocResponses)
    \/ VerifierRaises(DocErrors)
    \/ AppendResult
    \/ Crash
    \/ Aggregate

SpecDoc == InitDoc /\ [][NextDoc]_vars

\* aggregate_results called on any list of up to MaxEntries entries

EntryConfidences == {Num(300), Num(497), Num(800), NumStr(600), BadStr, NoConf}

EntryCategories ==
    {NoCats, CatsNotList, CatList(<<"M&A/Transactions", "None">>),
     CatList(<<"Executive Changes", Unhashable>>)}

Entries ==
    {DictEntry(m, cats, c, Absent, Absent) :
        m \in {"yes", "no", Absent}, cats \in EntryCategories,
        c \in EntryConfidences}
    \cup {NotADict}

\* all lists of entries of length n
Lists(n) == [1..n -> Entries]

InitAgg ==
    /\ pc = "idle"
    /\ max_retries = DefaultMaxRetries
    /\ attempt = 0
    /\ last_response_text = NoJsonText
    /\ ret = "none"
    /\ result = NoRecord
    /\ exit_path = "none"
    /\ initial_calls = 0
    /\ verifier_calls = 0
    /\ attempt_outcome = NoOutcome
    /\ first_pass = NoRecord
    /\ verifier_outcome = NoOutcome
    /\ earlier_parsed = FALSE
    /\ doc_pc = "call"
    /\ n_chunks = 0
    /\ results \in UNION {Lists(n) : n \in 0..MaxEntries}
    /\ summary = NoSummary

NextAgg == AggregateCall

SpecAgg == InitAgg /\ [][NextAgg]_vars

-----------------------------------------------------------------------------
\* Properties

\* the normalized record of a response the normalizer accepts
Parsed(outcome) == safe_parse_model_output(outcome.resp)
\* an llm.invoke call returned a response the normalizer does not raise on
Normalizable(outcome) ==
    outcome.o = "returned" /\ ~ParseRaises(outcome.resp)

\* C1: classify_chunk never propagates an exception to its caller: whatever
\* the retry budget and whatever each initial attempt and the verifier call
\* return or raise, the call ends by returning a record.
C1_NeverRaises == ret # "raised"

\* a record with all seven keys, each within its declared domain
WellFormed(r) ==
    /\ r.mnpi \in {"yes", "no", "unclear"}
    /\ r.categories # <<>>
    /\ \A i \in 1..Len(r.categories) : r.categories[i] \in allowed
    /\ 0 <= r.confidence /\ r.confidence <= 950
    /\ r.evidence_summary # Absent
    /\ r.risk_level \in {"low", "medium", "high"}
    /\ r.recommended_action \in {"escalate", "human_review", "no_action"}
    /\ r.notes # Absent

\* C2: every record safe_parse_model_output returns, and every record
\* classify_chunk returns on any exit path, has all seven keys, with mnpi,
\* categories, confidence, risk_level and recommended_action in their domains.
C2_AlwaysWellFormed ==
    /\ Normalizable(attempt_outcome) => WellFormed(Parsed(attempt_outcome))
    /\ Normalizable(verifier_outcome) => WellFormed(Parsed(verifier_outcome))
    /\ ret = "returned" => WellFormed(result)

\* C3: no positive finding with low confidence leaves the Normalizer or the
\* Controller: a raw yes whose normalized confidence is below 0.5 comes out of
\* safe_parse_model_output as unclear / human_review, and every record
\* classify_chunk returns with mnpi = yes has confidence >= 0.5.
RawLowConfidenceYes(outcome) ==
    /\ Normalizable(outcome)
    /\ outcome.resp.kind = "json"
    /\ outcome.resp.mnpi = "yes"
    /\ Parsed(outcome).confidence < 500

C3_NoLowConfidenceYes ==
    /\ \A outcome \in {attempt_outcome, verifier_outcome} :
          RawLowConfidenceYes(outcome) =>
              /\ Parsed(outcome).mnpi = "unclear"
              /\ Parsed(outcome).recommended_action = "human_review"
    /\ (ret = "returned" /\ result.mnpi = "yes") => result.confidence >= 500

\* a raw yes at 0.3 with action escalate is returned as unclear / human_review
C3_Witness ==
    /\ ret = "returned"
    /\ exit_path = "plain"
    /\ RawLowConfidenceYes(attempt_outcome)
    /\ attempt_outcome.resp.recommended_action = "escalate"
    /\ result.mnpi = "unclear"
    /\ result.recommended_action = "human_review"

LastAttemptNotAccepted ==
    /\ initial_calls = max_retries
    /\ Normalizable(attempt_outcome)
    /\ Parsed(attempt_outcome).confidence < 750
    /\ Parsed(attempt_outcome).mnpi # "no"

C5_VerifierGating ==
    /\ verifier_calls <= 1
    /\ pc # "done" => verifier_calls = 0
    /\ pc = "done" =>
          (verifier_calls = 1 <=>
              /\ LastAttemptNotAccepted
              /\ Parsed(attempt_outcome).confidence >= 400)
    /\ (pc = "done" /\ LastAttemptNotAccepted
            /\ Parsed(attempt_outcome).confidence < 400)
       => /\ ret = "returned"
          /\ result = Parsed(attempt_outcome)
          /\ verifier_calls = 0

\* the second of two attempts answers 0.396, which normalizes to 0.4, the
\* lower end of the band, and the verifier is called
C5_Witness ==
    /\ pc = "done"
    /\ max_retries = 2
    /\ initial_calls = 2
    /\ Normalizable(attempt_outcome)
    /\ Parsed(attempt_outcome).confidence = 400
    /\ verifier_calls = 1

\* C6: when the verifier invocation returns, the final confidence is the
\* minimum of the two passes' normalized confidences, and the final verdict is
\* unclear if either pass says unclear or the passes disagree, otherwise the
\* first pass's verdict, subject to the low-confidence override.
C6_MergeVerdictConfidence ==
    (pc = "done" /\ Normalizable(verifier_outcome)) =>
        LET first == Parsed(attempt_outcome)
            second == Parsed(verifier_outcome)
            c == IF first.confidence <= second.confidence
                 THEN first.confidence ELSE second.confidence
            m == IF first.mnpi = "unclear" \/ second.mnpi = "unclear"
                      \/ first.mnpi # second.mnpi
                 THEN "unclear" ELSE first.mnpi
        IN  /\ ret = "returned"
            /\ result.confidence = c
            /\ result.mnpi = IF m = "yes" /\ c < 500 THEN "unclear" ELSE m

\* first pass (yes, 0.6), verifier (unclear, 0.5): final (unclear, 0.5)
C6_Witness ==
    /\ pc = "done"
    /\ Normalizable(verifier_outcome)
    /\ Parsed(attempt_outcome).mnpi = "yes"
    /\ Parsed(attempt_outcome).confidence = 600
    /\ Parsed(verifier_outcome).mnpi = "unclear"
    /\ Parsed(verifier_outcome).confidence = 500
    /\ result.mnpi = "unclear"
    /\ result.confidence = 500

\* C7: if the verifier invocation fails, by raising or by answering text with
\* no JSON or malformed JSON, classify_chunk returns the first pass's record
\* with recommended_action forced to human_review and a note appended.
VerifierFailed ==
    \/ verifier_outcome.o = "raised"
    \/ /\ verifier_outcome.o = "returned"
       /\ verifier_outcome.resp.kind \in {"nojson", "malformed"}

C7_VerifierFailureFallback ==
    (pc = "done" /\ VerifierFailed) =>
        /\ ret = "returned"
        /\ result.mnpi = first_pass.mnpi
        /\ result.categories = first_pass.categories
        /\ result.confidence = first_pass.confidence
        /\ result.evidence_summary = first_pass.evidence_summary
        /\ result.risk_level = first_pass.risk_level
        /\ result.recommended_action = "human_review"
        /\ result.notes # first_pass.notes

\* C8: an exception in an initial attempt is caught and the attempt retried
\* while attempts remain; when the failing attempt is the last one, the
\* terminal record is unclear, 0.0, [None], human_review, with the text of
\* the last error in notes.
FailedAttempt ==
    \/ attempt_outcome.o = "raised"
    \/ attempt_outcome.o = "returned" /\ ParseRaises(attempt_outcome.resp)

LastErrorText ==
    IF attempt_outcome.o = "raised" THEN attempt_outcome.err
    ELSE ParseError(attempt_outcome.resp)

C8_TransientFailure ==
    FailedAttempt =>
        IF initial_calls < max_retries
        THEN /\ pc = "attempt"
             /\ ret = "none"
             /\ attempt = initial_calls + 1
        ELSE /\ pc = "done"
             /\ ret = "returned"
             /\ result.mnpi = "unclear"
             /\ result.confidence = 0
             /\ result.categories = <<"None">>
             /\ result.recommended_action = "human_review"
             /\ result.notes = "LLM error after retries: " \o LastErrorText
             /\ verifier_calls = 0

\* the second of two attempts raises and the terminal record carries its text
C8_Witness ==
    /\ pc = "done"
    /\ max_retries = 2
    /\ initial_calls = 2
    /\ attempt_outcome.o = "raised"
    /\ attempt_outcome.err = "timeout"
    /\ result.mnpi = "unclear"
    /\ result.notes = "LLM error after retries: timeout"

\* C9: detection failures are never dropped at document level: if some
\* per-chunk record is unclear or yes, the summary recommends human_review or
\* escalate; no_action only when every record is no (or there are none); and
\* overall_mnpi is yes or no, never unclear.
C9_NoSilentDrop ==
    doc_pc = "done" =>
        /\ summary.overall_mnpi \in {"yes", "no"}
        /\ (\E i \in 1..Len(results) : results[i].mnpi \in {"unclear", "yes"})
              => summary.recommended_action \in {"human_review", "escalate"}
        /\ summary.recommended_action = "no_action"
              => \A i \in 1..Len(results) : results[i].mnpi = "no"

\* a clean chunk followed by a chunk whose invocations all failed
C9_Witness ==
    /\ doc_pc = "done"
    /\ Len(results) = 2
    /\ results[1].mnpi = "no"
    /\ results[2].mnpi = "unclear"
    /\ results[2].evidence_summary = "LLM error"
    /\ summary.overall_mnpi = "no"
    /\ summary.recommended_action = "human_review"

\* C10: when no record is flagged (none has mnpi = yes), aggregate_results
\* yields overall_mnpi = no, categories = [], overall_confidence = the maximum
\* confidence over all records (0.0 if none), and human_review if some record
\* is unclear, else no_action.
C10_NoFlagged ==
    (doc_pc = "done" /\ \A i \in 1..Len(results) : results[i].mnpi # "yes") =>
        /\ summary.overall_mnpi = "no"
        /\ summary.categories = <<>>
        /\ \A i \in 1..Len(results) :
              results[i].confidence <= summary.overall_confidence
        /\ IF results = <<>> THEN summary.overall_confidence = 0
           ELSE \E i \in 1..Len(results) :
                   results[i].confidence = summary.overall_confidence
        /\ summary.recommended_action =
              IF \E i \in 1..Len(results) : results[i].mnpi = "unclear"
              THEN "human_review" ELSE "no_action"

\* [no at 0.3, unclear at 0.6] gives no, 0.6, human_review
C10_Witness ==
    /\ doc_pc = "done"
    /\ Len(results) = 2
    /\ results[1].mnpi = "no" /\ results[1].confidence = 300
    /\ results[2].mnpi = "unclear" /\ results[2].confidence = 600
    /\ summary.overall_confidence = 600
    /\ summary.recommended_action = "human_review"

\* C11: with at least one flagged record (mnpi = yes), aggregate_results
\* yields overall_mnpi = yes, categories = the sorted, deduplicated union of
\* the flagged records' tags without None, overall_confidence = the maximum
\* confidence among the flagged records only, and escalate if that maximum is
\* >= 0.75, else human_review.
Flagged == {i \in 1..Len(results) : results[i].mnpi = "yes"}

FlaggedTags == UNION {Range(results[i].categories) : i \in Flagged} \ {"None"}

\* position of a tag in Python's string order
Rank(c) == CHOOSE k \in 1..Len(SortedVocabulary) : SortedVocabulary[k] = c

C11_Flagged ==
    (doc_pc = "done" /\ Flagged # {}) =>
        /\ summary.overall_mnpi = "yes"
        /\ Range(summary.categories) = FlaggedTags
        /\ \A j, k \in 1..Len(summary.categories) :
              j < k => Rank(summary.categories[j]) < Rank(summary.categories[k])
        /\ \A i \in Flagged :
              results[i].confidence <= summary.overall_confidence
        /\ \E i \in Flagged :
              results[i].confidence = summary.overall_confidence
        /\ summary.recommended_action =
              IF summary.overall_confidence >= 750
              THEN "escalate" ELSE "human_review"

\* [no at 0.8, yes at 0.6 tagged M&A]: the unflagged 0.8 does not count
C11_Witness ==
    /\ doc_pc = "done"
    /\ Len(results) = 2
    /\ results[1].mnpi = "no" /\ results[1].confidence = 800
    /\ results[2].mnpi = "yes" /\ results[2].confidence = 600
    /\ results[2].categories = <<"M&A/Transactions">>
    /\ summary.categories = <<"M&A/Transactions">>
    /\ summary.overall_confidence = 600
    /\ summary.recommended_action = "human_review"

\* the result list reordered by a permutation of its indices
Permuted(rs, p) == [i \in 1..Len(rs) |-> rs[p[i]]]

\* C12: aggregate_results is order-independent: a result list and every
\* permutation of it give summaries equal in every field.
C12_OrderIndependent ==
    doc_pc = "done" =>
        \A p \in Permutations(1..Len(results)) :
            aggregate_results(Dicts(Permuted(results, p))) = summary

\* two flagged records whose tags come in descending order
C12_Witness ==
    /\ doc_pc = "done"
    /\ Len(results) = 2
    /\ results[1].mnpi = "yes" /\ results[1].confidence = 600
    /\ results[1].categories = <<"M&A/Transactions">>
    /\ results[2].mnpi = "yes" /\ results[2].confidence = 800
    /\ results[2].categories = <<"Executive Changes">>
    /\ summary.categories = <<"Executive Changes", "M&A/Transactions">>
    /\ summary.overall_confidence = 800

\* C13: aggregate_results never raises on bad entries: entries that are not
\* mappings and malformed mappings (missing keys, categories not a list or
\* holding non-string items, confidence missing, null or not numeric) are
\* treated as absent or defaulted, and the summary equals the one obtained
\* with the non-mapping entries removed.
C13_NeverRaises ==
    doc_pc # "call" =>
        /\ doc_pc = "done"
        /\ summary = aggregate_results(SelectSeq(results, LAMBDA r : r.is_dict))

\* C14: the confidence of every record of safe_parse_model_output and of
\* classify_chunk, and overall_confidence of a summary aggregated from such
\* records, lies in [0.00, 0.95] and is a multiple of 0.01; raw values below
\* 0 give 0.0, above 0.95 give 0.95, numeric strings are coerced, and
\* missing, null or uncoercible values give 0.0.
ClampedAndRounded(c) == 0 <= c /\ c <= 950 /\ c % 10 = 0

NormalizedAsClaimed(raw, c) ==
    /\ ClampedAndRounded(c)
    /\ raw.t \in {"num", "str"} =>
          /\ raw.v < 0 => c = 0
          /\ raw.v > 950 => c = 950
          /\ (0 <= raw.v /\ raw.v <= 950) => (c - 5 < raw.v /\ raw.v < c + 5)
    /\ raw.t \in {"absent", "null", "badstr"} => c = 0

VocabularyTags(raw) ==
    IF raw.t # "list" THEN <<>>
    ELSE SelectSeq(raw.v, LAMBDA c : c \in
            {"Unreleased Earnings/Guidance", "M&A/Transactions",
             "Executive Changes", "Product Launch/Strategic Plans",
             "Legal/Regulatory Investigations", "Insider Trading Risk",
             "Confidential Financial Projections", "None"})

C15_CategoryFiltering ==
    \A outcome \in {attempt_outcome, verifier_outcome} :
        (/\ outcome.o = "returned"
         /\ outcome.resp.kind = "json"
         /\ outcome.resp.confidence.t # "hugeint")
        => /\ ~ParseRaises(outcome.resp)
           /\ Parsed(outcome).categories =
                 IF VocabularyTags(outcome.resp.categories) = <<>>
                 THEN <<"None">>
                 ELSE VocabularyTags(outcome.resp.categories)

\* C16: when no attempt is early-accepted, the returned record is a function
\* of the outcome of the last (max_retries-th) attempt and, if it runs, of
\* the verifier outcome alone: earlier attempts do not count, and a last
\* attempt that raises gives the terminal error record even when an earlier
\* attempt returned a parsable verdict.
LastAttemptDone ==
    /\ pc = "done"
    /\ max_retries >= 1
    /\ initial_calls = max_retries
    /\ ~(/\ Normalizable(attempt_outcome)
         /\ \/ Parsed(attempt_outcome).confidence >= 750
            \/ Parsed(attempt_outcome).mnpi = "no")

C16_OnlyLastCounts ==
    LastAttemptDone =>
        IF FailedAttempt
        THEN /\ ret = "returned"
             /\ result = [mnpi |-> "unclear", categories |-> <<"None">>,
                          confidence |-> 0, evidence_summary |-> "LLM error",
                          risk_level |-> "low",
                          recommended_action |-> "human_review",
                          notes |-> "LLM error after retries: "
                                        \o LastErrorText]
        ELSE IF verifier_outcome.o = "none"
        THEN ret = "returned" /\ result = Parsed(attempt_outcome)
        ELSE IF Normalizable(verifier_outcome)
        THEN /\ ret = "returned"
             /\ result = MergeRecords(Parsed(attempt_outcome),
                                      Parsed(verifier_outcome))
        ELSE IF FallbackRaises(Parsed(attempt_outcome))
        THEN ret = "raised"
        ELSE /\ ret = "returned"
             /\ result = FallbackRecord(Parsed(attempt_outcome))

\* an earlier attempt returned a parsable verdict, the last one raised
C16_Witness ==
    /\ pc = "done"
    /\ max_retries = 2
    /\ initial_calls = 2
    /\ earlier_parsed
    /\ attempt_outcome.o = "raised"
    /\ ret = "returned"
    /\ result.evidence_summary = "LLM error"
    /\ result.mnpi = "unclear"

\* C17: in the merged record each of categories, evidence_summary,
\* risk_level, recommended_action and notes is the verifier pass's normalized
\* value when that value is present and non-empty, and otherwise the first
\* pass's value (None when the first pass has none).
Supplied(v) == v # Absent /\ v # None /\ v # ""

Preferred(v, f) == IF Supplied(v) THEN v ELSE IF f = Absent THEN None ELSE f

C17_MergeRemainingFields ==
    (pc = "done" /\ exit_path = "merge") =>
        LET fp == Parsed(attempt_outcome)
            vp == Parsed(verifier_outcome)
        IN  /\ result.categories =
                 IF vp.categories # <<>> THEN vp.categories ELSE fp.categories
            /\ result.evidence_summary =
                 Preferred(vp.evidence_summary, fp.evidence_summary)
            /\ result.risk_level = Preferred(vp.risk_level, fp.risk_level)
            /\ result.recommended_action =
                 Preferred(vp.recommended_action, fp.recommended_action)
            /\ result.notes = Preferred(vp.notes, fp.notes)

\* the verifier's notes replace the first pass's, and its empty evidence
\* leaves the first pass's evidence in place
C17_Witness ==
    /\ pc = "done"
    /\ exit_path = "merge"
    /\ Parsed(attempt_outcome).notes = NonStr
    /\ Parsed(verifier_outcome).notes = "note"
    /\ result.notes = "note"
    /\ Parsed(attempt_outcome).evidence_summary = "evidence"
    /\ Parsed(verifier_outcome).evidence_summary = ""
    /\ result.evidence_summary = "evidence"
    /\ Parsed(attempt_outcome).recommended_action = "no_action"
    /\ Parsed(verifier_outcome).recommended_action = "escalate"
    /\ result.recommended_action = "escalate"

\* C18: for max_retries = n, classify_chunk terminates having made at most n
\* initial invocations and at most one verifier invocation; attempt k+1 is
\* started only after attempt k has raised or returned a response that was
\* not early-accepted; with n >= 1 no record is returned before an
\* invocation has been made.
PreviousAttemptRejected ==
    \/ attempt_outcome.o = "raised"
    \/ /\ attempt_outcome.o = "returned"
       /\ \/ ParseRaises(attempt_outcome.resp)
          \/ /\ safe_parse_model_output(attempt_outcome.resp).confidence < 750
             /\ safe_parse_model_output(attempt_outcome.resp).mnpi # "no"

BoundedInvocations ==
    /\ initial_calls <= max_retries
    /\ verifier_calls <= 1
    /\ initial_calls + verifier_calls <= max_retries + 1
    /\ (pc = "attempt") => (initial_calls = attempt - 1)
    /\ (pc = "attempt" /\ attempt >= 2) => PreviousAttemptRejected
    /\ (pc = "done" /\ max_retries >= 1) => (initial_calls >= 1)
    /\ (verifier_calls = 1) => (initial_calls = max_retries)

C18_BoundedTermination == [](BoundedInvocations) /\ <>(pc = "done")

\* the whole budget is used: n initial invocations and the verifier
C18_Witness ==
    /\ pc = "done"
    /\ max_retries = 2
    /\ initial_calls = 2
    /\ verifier_calls = 1
    /\ ret = "returned"

\* C19, as stated: on every exit path a returned record with mnpi = unclear
\* has recommended_action human_review or escalate, never no_action.
C19_Original ==
    (pc = "done" /\ ret = "returned" /\ result.mnpi = "unclear") =>
        result.recommended_action \in {"human_review", "escalate"}

\* C19, amended: a returned record with mnpi = unclear has recommended_action
\* human_review or escalate, except that (a) on the early-accept and plain
\* returns a no_action the model itself supplied with a verdict other than
\* yes is kept, and (b) on the verifier merge the action is the verifier
\* pass's normalized action, which is no_action when the verifier supplied it
\* or when the verifier's own verdict is not unclear and its risk is low.
C19_UnclearAction ==
    (pc = "done" /\ ret = "returned" /\ result.mnpi = "unclear") =>
        \/ result.recommended_action \in {"human_review", "escalate"}
        \/ /\ result.recommended_action = "no_action"
           /\ exit_path \in {"early", "plain"}
           /\ attempt_outcome.o = "returned"
           /\ attempt_outcome.resp.recommended_action = "no_action"
           /\ attempt_outcome.resp.mnpi # "yes"
        \/ /\ result.recommended_action = "no_action"
           /\ exit_path = "merge"
           /\ Parsed(verifier_outcome).recommended_action = "no_action"
           /\ \/ verifier_outcome.resp.recommended_action = "no_action"
              \/ /\ Parsed(verifier_outcome).mnpi # "unclear"
                 /\ Parsed(verifier_outcome).risk_level = "low"

\* an unclear verdict without a supplied action gets human_review
C19_Witness ==
    /\ pc = "done"
    /\ ret = "returned"
    /\ exit_path = "plain"
    /\ attempt_outcome.o = "returned"
    /\ attempt_outcome.resp.kind = "json"
    /\ attempt_outcome.resp.mnpi = "unclear"
    /\ attempt_outcome.resp.recommended_action = Absent
    /\ result.mnpi = "unclear"
    /\ result.risk_level = "low"
    /\ result.recommended_action = "human_review"

====
